---- MODULE Spec2Model ----
(***************************************************************************)
(* Savings / loans ledger of the CBO management application.               *)
(*                                                                         *)
(* The state is the content of the Postgres tables members, savings,      *)
(* loans, loan_payments, profiles and user_roles; the operations are the   *)
(* SQL statements the client issues (supabase-js insert/update/delete),    *)
(* each one together with the row level security policies that filter it   *)
(* and the row triggers that fire inside the same statement.               *)
(*                                                                         *)
(* Units: money is an integer number of cents (DECIMAL(10,2)), an interest *)
(* rate an integer number of hundredths of a percent (DECIMAL(5,2)), a     *)
(* date an integer number of months.  A nullable column holds <<>> for     *)
(* NULL and <<v>> for the value v.                                         *)
(***************************************************************************)
EXTENDS Integers, Sequences, FiniteSets, TLC

VARIABLES
    profiles,       \* user -> profiles.role
    user_roles,     \* set of <<user, role>> rows of user_roles
    members,        \* member id -> [user_id, member_number,
                    \*   monthly_savings_target, total_savings]
    savings,        \* savings id -> [member_id, amount, transaction_type]
    loans,          \* loan id -> loan row (committed version)
    loan_payments,  \* payment id -> [loan_id, amount] (committed rows)
    today,          \* CURRENT_DATE
    tx,             \* session -> state of its open payment transaction
    dash,           \* the dashboard's React state (LoansSection, MembersSection)
    lastOp          \* the last request and what the caller was told

vars == <<profiles, user_roles, members, savings, loans, loan_payments,
          today, tx, dash, lastOp>>

----------------------------------------------------------------------------
(* Bounds of the model *)

MaxSavings == 1
MaxLoans == 1
MaxPayments == 2
MaxDate == 1
MaxMembers == 3

(* Inputs *)

Users == {"adm", "trs", "mem"}
MemberIds == {"m1", "m2"}
SavingsAmounts == {100, 250}
TransactionTypes == {"deposit", "withdrawal"}
LoanAmounts == {1005, 1000000}
InterestRates == {0, 1000}
Durations == {12}
PaymentAmounts == {300000, 400000}
LoanStatuses == {"pending", "approved", "disbursed", "completed", "defaulted"}
Sessions == {"s1", "s2"}

(* the session of the table owner: row level security does not apply to it
   and auth.uid() is NULL in it *)
Owner == "owner"

Null == <<>>
Some(v) == <<v>>
IsNull(x) == x = <<>>
Val(x) == x[1]

----------------------------------------------------------------------------
(* Text: a string is the sequence of its characters *)

DigitChars == <<"0", "1", "2", "3", "4", "5", "6", "7", "8", "9">>

(* n::TEXT and String(n), for n >= 0 *)
RECURSIVE ToText(_)
ToText(n) ==
    IF n < 10 THEN <<DigitChars[n + 1]>>
    ELSE ToText(n \div 10) \o <<DigitChars[(n % 10) + 1]>>

RECURSIVE Repeat(_, _)
Repeat(c, k) == IF k <= 0 THEN <<>> ELSE <<c>> \o Repeat(c, k - 1)

(* LPAD(s, len, fill) of Postgres: a longer s is cut to its first len
   characters *)
LPAD(s, len, fill) ==
    IF Len(s) >= len THEN SubSeq(s, 1, len)
    ELSE Repeat(fill, len - Len(s)) \o s

(* String.prototype.padStart: a longer s is returned whole *)
padStart(s, len, fill) ==
    IF Len(s) >= len THEN s
    ELSE Repeat(fill, len - Len(s)) \o s

(* 'ALF' || LPAD(n::TEXT, 4, '0') *)
MemberNumber(n) == <<"A", "L", "F">> \o LPAD(ToText(n), 4, "0")

----------------------------------------------------------------------------
(* Roles and row level security *)

InitProfiles == [u \in Users |->
    CASE u = "adm" -> "admin" [] u = "trs" -> "treasurer" [] OTHER -> "member"]

InitUserRoles == {<<"adm", "admin">>, <<"adm", "member">>,
                  <<"trs", "treasurer">>, <<"trs", "member">>,
                  <<"mem", "member">>}

has_role(_user_id, _role) == <<_user_id, _role>> \in user_roles

IsStaff(actor) == has_role(actor, "admin") \/ has_role(actor, "treasurer")

OnlyMember(actor) ==
    /\ actor \in DOMAIN profiles
    /\ \A r \in {"admin", "treasurer"} : ~has_role(actor, r)
    /\ profiles[actor] = "member"

(* savings: INSERT *)
PolicySavingsInsert(actor) == actor = Owner \/ actor \in Users

(* savings: UPDATE and DELETE *)
PolicySavingsUpdate(actor) == actor = Owner \/ IsStaff(actor)
PolicySavingsDelete(actor) == actor = Owner \/ IsStaff(actor)

(* members: UPDATE is granted by "Admins can manage members" (FOR ALL, on
   profiles.role) or by "Admins and treasurers can update members" *)
PolicyMembersUpdate(actor) ==
    \/ actor = Owner
    \/ /\ actor \in DOMAIN profiles
       /\ profiles[actor] \in {"admin", "treasurer", "secretary"}
    \/ IsStaff(actor)

(* auth.uid() IS NOT NULL: the request carries the token of a signed-up user *)
Authenticated(actor) == actor \in DOMAIN profiles

(* loans, loan_payments, savings: SELECT, "Authenticated users can view ..." *)
PolicyLoansSelect(actor) == actor = Owner \/ Authenticated(actor)
PolicyPaymentsSelect(actor) == actor = Owner \/ Authenticated(actor)
PolicySavingsSelect(actor) == actor = Owner \/ Authenticated(actor)

(* the rows a SELECT by actor returns *)
VisibleLoans(actor, ls) == {l \in DOMAIN ls : PolicyLoansSelect(actor)}
VisiblePayments(actor, pays) == {i \in DOMAIN pays : PolicyPaymentsSelect(actor)}
VisibleSavings(actor, sv) == {i \in DOMAIN sv : PolicySavingsSelect(actor)}

----------------------------------------------------------------------------
(* Savings *)

RECURSIVE SumSavings(_, _, _)
SumSavings(sv, ids, m) ==
    IF ids = {} THEN 0
    ELSE LET i == CHOOSE x \in ids : TRUE
             row == sv[i]
             signed == IF row.transaction_type = "deposit"
                       THEN row.amount ELSE 0 - row.amount
         IN (IF row.member_id = m THEN signed ELSE 0)
            + SumSavings(sv, ids \ {i}, m)

(* the row trigger update_member_savings_total; newMember is NEW.member_id,
   which is NULL (<<>>) when the trigger fires for a DELETE.  The UPDATE it
   runs is the caller's statement: the policies on members filter it. *)
update_member_totals(actor, mem, sv, newMember) ==
    IF IsNull(newMember) \/ ~PolicyMembersUpdate(actor) THEN mem
    ELSE [mem EXCEPT ![Val(newMember)].total_savings =
              SumSavings(sv, DOMAIN sv, Val(newMember))]

FreeId(tbl, max) ==
    CHOOSE i \in 1..max : i \notin DOMAIN tbl /\ \A j \in 1..(i-1) : j \in DOMAIN tbl

Insert(tbl, id, row) == [i \in DOMAIN tbl \cup {id} |-> IF i = id THEN row ELSE tbl[i]]
Delete(tbl, id) == [i \in DOMAIN tbl \ {id} |-> tbl[i]]

Op(op, actor, target, result) ==
    [op |-> op, actor |-> actor, target |-> target, result |-> result]

InitMembers == [m \in MemberIds |->
    [user_id |-> IF m = "m1" THEN "mem" ELSE "adm",
     member_number |-> MemberNumber(IF m = "m1" THEN 1 ELSE 2),
     monthly_savings_target |-> 0,
     total_savings |-> 0]]

(* SavingsTransactionForm.onSubmit: INSERT INTO savings *)
RecordSavings(actor, m, amount, type) ==
    /\ Cardinality(DOMAIN savings) < MaxSavings
    /\ PolicySavingsInsert(actor)
    /\ LET id == FreeId(savings, MaxSavings)
           sv == Insert(savings, id,
                   [member_id |-> m, amount |-> amount, transaction_type |-> type,
                    balance_after |-> Null])
       IN /\ savings' = sv
          /\ members' = update_member_totals(actor, members, sv, Some(m))
          /\ lastOp' = Op("recordSavingsTransaction", actor, id, "ok")
    /\ UNCHANGED <<profiles, user_roles, loans, loan_payments, today, tx, dash>>

(* UPDATE savings SET ... WHERE id = ... *)
UpdateSavings(actor, id, m, amount, type) ==
    /\ id \in DOMAIN savings
    /\ IF PolicySavingsUpdate(actor)
       THEN LET sv == [savings EXCEPT ![id] =
                    [member_id |-> m, amount |-> amount, transaction_type |-> type,
                     balance_after |-> savings[id].balance_after]]
            IN /\ savings' = sv
               /\ members' = update_member_totals(actor, members, sv, Some(m))
               /\ lastOp' = Op("updateSavings", actor, 0, "ok")
       ELSE /\ UNCHANGED <<savings, members>>
            /\ lastOp' = Op("updateSavings", actor, 0, "no rows")
    /\ UNCHANGED <<profiles, user_roles, loans, loan_payments, today, tx, dash>>

(* DELETE FROM savings WHERE id = ... *)
DeleteSavings(actor, id) ==
    /\ id \in DOMAIN savings
    /\ IF PolicySavingsDelete(actor)
       THEN LET sv == Delete(savings, id)
            IN /\ savings' = sv
               /\ members' = update_member_totals(actor, members, sv, Null)
               /\ lastOp' = Op("deleteSavings", actor, 0, "ok")
       ELSE /\ UNCHANGED <<savings, members>>
            /\ lastOp' = Op("deleteSavings", actor, 0, "no rows")
    /\ UNCHANGED <<profiles, user_roles, loans, loan_payments, today, tx, dash>>

(* INSERT INTO savings through the REST endpoint: the client supplies every
   column, balance_after (DECIMAL(10,2), nullable, no default, no trigger)
   among them *)
InsertSavingsDirect(actor, m, amount, type, balance_after) ==
    /\ Cardinality(DOMAIN savings) < MaxSavings
    /\ PolicySavingsInsert(actor)
    /\ LET id == FreeId(savings, MaxSavings)
           sv == Insert(savings, id,
                   [member_id |-> m, amount |-> amount, transaction_type |-> type,
                    balance_after |-> Some(balance_after)])
       IN /\ savings' = sv
          /\ members' = update_member_totals(actor, members, sv, Some(m))
          /\ lastOp' = Op("insertSavings", actor, id, "ok")
    /\ UNCHANGED <<profiles, user_roles, loans, loan_payments, today, tx, dash>>

----------------------------------------------------------------------------
(* Loans *)

(* the policy that lets a signed-in user apply for any member *)
PolicyLoansInsert_anyMember(actor, mem, member_id) ==
    actor = Owner \/ member_id \in DOMAIN mem

(* loans: INSERT, "Members can apply for loans" *)
PolicyLoansInsert(actor, mem, member_id) ==
    \/ actor = Owner
    \/ /\ member_id \in DOMAIN mem
       /\ mem[member_id].user_id = actor

(* loans: UPDATE, "Admins can manage loans" *)
PolicyLoansUpdate(actor) == actor = Owner \/ IsStaff(actor)

(* the policy any signed-in user passes *)
PolicyPaymentsInsert_authenticated(actor) == actor = Owner \/ actor \in Users

(* loan_payments: INSERT, "Admins can record payments"; no policy grants
   UPDATE or DELETE on loan_payments *)
PolicyPaymentsInsert(actor) == actor = Owner \/ IsStaff(actor)
PolicyPaymentsUpdate(actor) == actor = Owner
PolicyPaymentsDelete(actor) == actor = Owner

(* a numeric value n/d stored in a DECIMAL(_,2) column counted in cents:
   rounded to the nearest cent, ties away from zero *)
RoundDiv(n, d) ==
    LET a == IF n < 0 THEN 0 - n ELSE n
        q == a \div d
        r == a % d
        m == IF 2 * r >= d THEN q + 1 ELSE q
    IN IF n < 0 THEN 0 - m ELSE m

(* NULL - x is NULL *)
Minus(x, n) == IF IsNull(x) THEN Null ELSE Some(Val(x) - n)

(* the trigger dropping the fraction of a cent instead of rounding it *)
calculate_loan_total_truncated(OLDrow, NEWrow, current_date) ==
    IF NEWrow.status = "approved" /\ OLDrow.status # "approved"
    THEN LET total == NEWrow.amount + (NEWrow.amount * NEWrow.interest_rate) \div 10000
         IN [NEWrow EXCEPT !.total_amount_due = Some(total),
                        !.balance = Some(total),
                        !.approval_date = Some(current_date),
                        !.due_date = Some(current_date + NEWrow.duration_months)]
    ELSE NEWrow

(* the trigger computing the total on every update that leaves the loan
   approved, whatever its status was *)
calculate_loan_total_always(OLDrow, NEWrow, current_date) ==
    IF NEWrow.status = "approved"
    THEN LET total == NEWrow.amount + RoundDiv(NEWrow.amount * NEWrow.interest_rate, 10000)
         IN [NEWrow EXCEPT !.total_amount_due = Some(total),
                        !.balance = Some(total),
                        !.approval_date = Some(current_date),
                        !.due_date = Some(current_date + NEWrow.duration_months)]
    ELSE NEWrow

(* the BEFORE UPDATE row trigger calculate_loan_total_trigger *)
calculate_loan_total(OLDrow, NEWrow, current_date) ==
    IF NEWrow.status = "approved" /\ OLDrow.status # "approved"
    THEN LET total == NEWrow.amount + RoundDiv(NEWrow.amount * NEWrow.interest_rate, 10000)
         IN [NEWrow EXCEPT !.total_amount_due = Some(total),
                        !.balance = Some(total),
                        !.approval_date = Some(current_date),
                        !.due_date = Some(current_date + NEWrow.duration_months)]
    ELSE NEWrow

RECURSIVE SumPayments(_, _, _)
SumPayments(pays, ids, l) ==
    IF ids = {} THEN 0
    ELSE LET i == CHOOSE x \in ids : TRUE
         IN (IF pays[i].loan_id = l THEN pays[i].amount ELSE 0)
            + SumPayments(pays, ids \ {i}, l)

(* the trigger closing the loan with the payment that settles it *)
update_loan_balance_completing(actor, ls, pays, newLoan, current_date) ==
    IF IsNull(newLoan) \/ ~PolicyLoansUpdate(actor) \/ Val(newLoan) \notin DOMAIN ls
    THEN ls
    ELSE LET l == Val(newLoan)
             paid == SumPayments(pays, DOMAIN pays, l)
             balance == Minus(ls[l].total_amount_due, paid)
             NEWrow == [ls[l] EXCEPT !.amount_paid = paid,
                                  !.balance = balance,
                                  !.status = IF balance = Some(0) THEN "completed" ELSE @]
         IN [ls EXCEPT ![l] = calculate_loan_total(ls[l], NEWrow, current_date)]

(* the row trigger update_loan_balance_trigger; newLoan is NEW.loan_id, NULL
   when the trigger fires for a DELETE.  pays is what the UPDATE's snapshot
   shows of loan_payments, ls the latest version of the loans rows. *)
update_loan_balance(actor, ls, pays, newLoan, current_date) ==
    IF IsNull(newLoan) \/ ~PolicyLoansUpdate(actor) \/ Val(newLoan) \notin DOMAIN ls
    THEN ls
    ELSE LET l == Val(newLoan)
             paid == SumPayments(pays, DOMAIN pays, l)
             NEWrow == [ls[l] EXCEPT !.amount_paid = paid,
                                  !.balance = Minus(ls[l].total_amount_due, paid)]
         IN [ls EXCEPT ![l] = calculate_loan_total(ls[l], NEWrow, current_date)]

IdleTx == [pc |-> "idle", actor |-> "none", loan_id |-> 0, amount |-> 0,
           snapshot |-> <<>>, row |-> <<>>]

(* no open transaction holds the lock of loans row l *)
RowFree(l) == \A s \in Sessions : ~(tx[s].pc = "locked" /\ tx[s].loan_id = l)

(* a row of loans with the defaults of its columns; loan_number as the
   INSERT gives it *)
NewLoan(m, amount, rate, duration) ==
    [loan_number |-> Null,
     member_id |-> m, amount |-> amount, interest_rate |-> rate,
     duration_months |-> duration, status |-> "pending",
     approval_date |-> Null, due_date |-> Null, total_amount_due |-> Null,
     amount_paid |-> 0, balance |-> Null]

(* TO_CHAR(CURRENT_DATE, 'YYYY'); month 0 is January 2025 *)
Year(current_date) == 2025 + current_date \div 12

(* 'LN' || year || LPAD(n::TEXT, 4, '0') *)
LoanNumber(current_date, n) ==
    <<"L", "N">> \o ToText(Year(current_date)) \o LPAD(ToText(n), 4, "0")

(* the BEFORE INSERT row trigger generate_loan_number_trigger; count is the
   number of loans created in the current year (today stays within one
   year, so these are all the loans) *)
generate_loan_number(NEWrow, count, current_date) ==
    IF IsNull(NEWrow.loan_number) \/ NEWrow.loan_number = Some(<<>>)
    THEN [NEWrow EXCEPT !.loan_number = Some(LoanNumber(current_date, count + 1))]
    ELSE NEWrow

(* loan_number TEXT NOT NULL UNIQUE *)
LoanNumberTaken(ls, number) ==
    \E l \in DOMAIN ls : ls[l].loan_number = number

(* the row as the table stores it *)
StoredLoan(NEWrow) == [NEWrow EXCEPT !.loan_number = Val(NEWrow.loan_number)]

(* INSERT INTO loans of the row the client sends *)
InsertLoan(actor, row) ==
    LET NEWrow == generate_loan_number(row, Cardinality(DOMAIN loans), today)
    IN IF ~PolicyLoansInsert(actor, members, NEWrow.member_id)
       THEN /\ UNCHANGED loans
            /\ lastOp' = Op("applyForLoan", actor, 0, "Unauthorized")
       ELSE IF LoanNumberTaken(loans, Val(NEWrow.loan_number))
       THEN /\ UNCHANGED loans
            /\ lastOp' = Op("applyForLoan", actor, 0, "duplicate key")
       ELSE LET id == FreeId(loans, MaxLoans)
            IN /\ loans' = Insert(loans, id, StoredLoan(NEWrow))
               /\ lastOp' = Op("applyForLoan", actor, id, "ok")

(* Date.now() as the form reads it, counted in seconds *)
Clock == {1753000001, 1753000002}

(* `LN${Date.now()}` *)
TemporaryNumber(now) == <<"L", "N">> \o ToText(now)

(* LoanApplicationForm.onSubmit: INSERT INTO loans *)
ApplyForLoan(actor, m, amount, rate, duration) ==
    /\ Cardinality(DOMAIN loans) < MaxLoans
    /\ \E now \in Clock :
          InsertLoan(actor, [NewLoan(m, amount, rate, duration) EXCEPT
                                !.loan_number = Some(TemporaryNumber(now))])
    /\ UNCHANGED <<profiles, user_roles, members, savings, loan_payments, today, tx, dash>>

(* INSERT INTO loans sent to the API by the client itself: the row may set
   any column, loan_number is left to the trigger *)
InsertLoanDirect(actor, m, amount, status, total) ==
    /\ Cardinality(DOMAIN loans) < MaxLoans
    /\ InsertLoan(actor, [NewLoan(m, amount, 1000, 12) EXCEPT
                             !.status = status,
                             !.total_amount_due = total,
                             !.balance = total,
                             !.approval_date = IF IsNull(total) THEN Null ELSE Some(today),
                             !.due_date = IF IsNull(total) THEN Null ELSE Some(today + 12)])
    /\ UNCHANGED <<profiles, user_roles, members, savings, loan_payments, today, tx, dash>>

(* UPDATE loans SET status = ... WHERE id = ... *)
UpdateLoanStatusStmt(op, actor, id, status) ==
    IF PolicyLoansUpdate(actor)
    THEN /\ loans' = [loans EXCEPT ![id] =
                 calculate_loan_total(loans[id], [loans[id] EXCEPT !.status = status], today)]
         /\ lastOp' = Op(op, actor, id, "ok")
    ELSE /\ UNCHANGED loans
         /\ lastOp' = Op(op, actor, id, "no rows")

UpdateLoanStatus(actor, id, status) ==
    /\ id \in DOMAIN loans
    /\ RowFree(id)
    /\ UpdateLoanStatusStmt(IF status = "approved" THEN "approveLoan" ELSE "updateLoanStatus",
                            actor, id, status)
    /\ UNCHANGED <<profiles, user_roles, members, savings, loan_payments, today, tx, dash>>

(* UPDATE loans SET amount = ..., interest_rate = ... WHERE id = ...: the
   update policy lets an admin or treasurer through for any column *)
UpdateLoanTerms(actor, id, amount, rate) ==
    /\ id \in DOMAIN loans
    /\ RowFree(id)
    /\ IF PolicyLoansUpdate(actor)
       THEN /\ loans' = [loans EXCEPT ![id] =
                    calculate_loan_total(loans[id],
                        [loans[id] EXCEPT !.amount = amount, !.interest_rate = rate], today)]
            /\ lastOp' = Op("updateLoanTerms", actor, id, "ok")
       ELSE /\ UNCHANGED loans
            /\ lastOp' = Op("updateLoanTerms", actor, id, "no rows")
    /\ UNCHANGED <<profiles, user_roles, members, savings, loan_payments, today, tx, dash>>

(* INSERT INTO loan_payments, the statement of confirmPayment *)
RecordPayment(actor, l, amount) ==
    /\ l \in DOMAIN loans
    /\ Cardinality(DOMAIN loan_payments) < MaxPayments
    /\ IF PolicyPaymentsInsert(actor)
       THEN LET id == FreeId(loan_payments, MaxPayments)
                pays == Insert(loan_payments, id, [loan_id |-> l, amount |-> amount])
            IN /\ loan_payments' = pays
               /\ loans' = update_loan_balance(actor, loans, pays, Some(l), today)
               /\ lastOp' = Op("recordLoanPayment", actor, l, "ok")
       ELSE /\ UNCHANGED <<loan_payments, loans>>
            /\ lastOp' = Op("recordLoanPayment", actor, l, "Unauthorized")
    /\ UNCHANGED <<profiles, user_roles, members, savings, today, tx, dash>>

(* UPDATE loan_payments SET loan_id = ..., amount = ... WHERE id = ... *)
UpdatePayment(actor, id, l, amount) ==
    /\ id \in DOMAIN loan_payments
    /\ l \in DOMAIN loans
    /\ IF PolicyPaymentsUpdate(actor)
       THEN LET pays == [loan_payments EXCEPT ![id] = [loan_id |-> l, amount |-> amount]]
            IN /\ loan_payments' = pays
               /\ loans' = update_loan_balance(actor, loans, pays, Some(l), today)
               /\ lastOp' = Op("updatePayment", actor, l, "ok")
       ELSE /\ UNCHANGED <<loan_payments, loans>>
            /\ lastOp' = Op("updatePayment", actor, l, "no rows")
    /\ UNCHANGED <<profiles, user_roles, members, savings, today, tx, dash>>

(* DELETE FROM loan_payments WHERE id = ... *)
DeletePayment(actor, id) ==
    /\ id \in DOMAIN loan_payments
    /\ IF PolicyPaymentsDelete(actor)
       THEN LET pays == Delete(loan_payments, id)
            IN /\ loan_payments' = pays
               /\ loans' = update_loan_balance(actor, loans, pays, Null, today)
               /\ lastOp' = Op("deletePayment", actor, loan_payments[id].loan_id, "ok")
       ELSE /\ UNCHANGED <<loan_payments, loans>>
            /\ lastOp' = Op("deletePayment", actor, loan_payments[id].loan_id, "no rows")
    /\ UNCHANGED <<profiles, user_roles, members, savings, today, tx, dash>>

(* CURRENT_DATE moves on *)
Tick ==
    /\ today < MaxDate
    /\ today' = today + 1
    /\ UNCHANGED <<profiles, user_roles, members, savings, loans, loan_payments, tx, dash, lastOp>>

----------------------------------------------------------------------------
(* Payment recording as the transaction Postgres runs (READ COMMITTED): the
   INSERT, the UPDATE of the trigger, which takes its snapshot when it starts
   and then waits for the lock of the loans row, and the commit. *)

InFlight == {s \in Sessions : tx[s].pc # "idle"}

(* INSERT INTO loan_payments: the new row is visible to its transaction only *)
TxInsert(s, actor, l, amount) ==
    /\ tx[s].pc = "idle"
    /\ l \in DOMAIN loans
    /\ Cardinality(DOMAIN loan_payments) + Cardinality(InFlight) < MaxPayments
    /\ IF PolicyPaymentsInsert(actor)
       THEN /\ tx' = [tx EXCEPT ![s] = [IdleTx EXCEPT !.pc = "inserted", !.actor = actor,
                                          !.loan_id = l, !.amount = amount]]
            /\ UNCHANGED lastOp
       ELSE /\ UNCHANGED tx
            /\ lastOp' = Op("recordLoanPayment", actor, l, "Unauthorized")
    /\ UNCHANGED <<profiles, user_roles, members, savings, loans, loan_payments, today, dash>>

(* update_loan_balance starts its UPDATE: the statement's snapshot shows the
   committed payments and the transaction's own row *)
TxSnapshot(s) ==
    /\ tx[s].pc = "inserted"
    /\ tx' = [tx EXCEPT ![s].pc = "update",
                        ![s].snapshot = Insert(loan_payments, 0,
                            [loan_id |-> tx[s].loan_id, amount |-> tx[s].amount])]
    /\ UNCHANGED <<profiles, user_roles, members, savings, loans, loan_payments,
                   today, dash, lastOp>>

(* the UPDATE gets the row lock and writes the latest version of the row, with
   the sums its snapshot gave *)
TxUpdate(s) ==
    /\ tx[s].pc = "update"
    /\ RowFree(tx[s].loan_id)
    /\ tx' = [tx EXCEPT ![s].pc = "locked",
                        ![s].row = update_loan_balance(tx[s].actor, loans, tx[s].snapshot,
                                       Some(tx[s].loan_id), today)[tx[s].loan_id]]
    /\ UNCHANGED <<profiles, user_roles, members, savings, loans, loan_payments,
                   today, dash, lastOp>>

TxCommit(s) ==
    /\ tx[s].pc = "locked"
    /\ loan_payments' = Insert(loan_payments, FreeId(loan_payments, MaxPayments),
                               [loan_id |-> tx[s].loan_id, amount |-> tx[s].amount])
    /\ loans' = [loans EXCEPT ![tx[s].loan_id] = tx[s].row]
    /\ tx' = [tx EXCEPT ![s] = IdleTx]
    /\ lastOp' = Op("recordLoanPayment", tx[s].actor, tx[s].loan_id, "ok")
    /\ UNCHANGED <<profiles, user_roles, members, savings, today, dash>>

----------------------------------------------------------------------------
(* The loans dashboard (LoansSection): its copy of the loans, the loan picked
   and the open dialog *)

Fetched == [l \in VisibleLoans(dash.user, loans) |-> loans[l].status]

fetchLoans ==
    /\ dash' = [dash EXCEPT !.loans = Fetched]
    /\ UNCHANGED <<profiles, user_roles, members, savings, loans, loan_payments,
                   today, tx, lastOp>>

(* the Approve button is rendered for a loan the copy shows as pending *)
handleApproveLoan(l) ==
    /\ dash.dialog = "none"
    /\ l \in DOMAIN dash.loans
    /\ dash.loans[l] = "pending"
    /\ dash' = [dash EXCEPT !.selectedLoan = l, !.dialog = "approve"]
    /\ UNCHANGED <<profiles, user_roles, members, savings, loans, loan_payments,
                   today, tx, lastOp>>

(* the update reports no error when the policy filters the row out: the
   dialog closes and the loans are fetched again either way *)
confirmApproveLoan ==
    /\ dash.dialog = "approve"
    /\ dash.selectedLoan # 0
    /\ RowFree(dash.selectedLoan)
    /\ UpdateLoanStatusStmt("approveLoan", dash.user, dash.selectedLoan, "approved")
    /\ dash' = [dash EXCEPT !.selectedLoan = 0, !.dialog = "none",
                            !.loans = [l \in DOMAIN loans' |-> loans'[l].status]]
    /\ UNCHANGED <<profiles, user_roles, members, savings, loan_payments, today, tx>>

(* the Record Payment button is rendered for a loan the copy shows as approved
   or disbursed *)
handleRecordPayment(l) ==
    /\ dash.dialog = "none"
    /\ l \in DOMAIN dash.loans
    /\ dash.loans[l] \in {"approved", "disbursed"}
    /\ dash' = [dash EXCEPT !.selectedLoan = l, !.dialog = "payment"]
    /\ UNCHANGED <<profiles, user_roles, members, savings, loans, loan_payments,
                   today, tx, lastOp>>

(* the amount typed is parseFloat(paymentAmount), counted here in tenths of a
   cent; nothing is sent unless it is > 0, and the column amount
   DECIMAL(10,2) rounds what is sent to the cent *)
confirmPayment(typed) ==
    /\ dash.dialog = "payment"
    /\ dash.selectedLoan # 0
    /\ typed > 0
    /\ Cardinality(DOMAIN loan_payments) < MaxPayments
    /\ IF PolicyPaymentsInsert(dash.user)
       THEN LET l == dash.selectedLoan
                amount == RoundDiv(typed, 10)
                id == FreeId(loan_payments, MaxPayments)
                pays == Insert(loan_payments, id, [loan_id |-> l, amount |-> amount])
            IN /\ loan_payments' = pays
               /\ loans' = update_loan_balance(dash.user, loans, pays, Some(l), today)
               /\ lastOp' = Op("recordLoanPayment", dash.user, l, "ok")
               /\ dash' = [dash EXCEPT !.selectedLoan = 0, !.dialog = "none",
                                       !.loans = [k \in DOMAIN loans' |-> loans'[k].status]]
       ELSE /\ UNCHANGED <<loan_payments, loans, dash>>
            /\ lastOp' = Op("recordLoanPayment", dash.user, dash.selectedLoan, "Unauthorized")
    /\ UNCHANGED <<profiles, user_roles, members, savings, today, tx>>

----------------------------------------------------------------------------
(* The forms: what zod lets through to onSubmit.  Amounts typed into a form
   are counted in tenths of a cent, the columns round them to the cent. *)

(* LoanApplicationForm formSchema *)
LoanFormValid(typed, rate, duration) ==
    /\ typed >= 10
    /\ rate >= 0 /\ rate <= 10000
    /\ duration >= 1

(* SavingsTransactionForm formSchema *)
SavingsFormValid(typed, type) ==
    /\ typed >= 10
    /\ type \in TransactionTypes

(* the loan application form is submitted *)
SubmitLoanForm(actor, m, typed, rate, duration) ==
    IF LoanFormValid(typed, rate, duration)
    THEN ApplyForLoan(actor, m, RoundDiv(typed, 10), rate, duration)
    ELSE /\ lastOp' = Op("applyForLoan", actor, 0, "ValidationError")
         /\ UNCHANGED <<profiles, user_roles, members, savings, loans, loan_payments,
                        today, tx, dash>>

(* the savings transaction form is submitted *)
SubmitSavingsForm(actor, m, typed, type) ==
    IF SavingsFormValid(typed, type)
    THEN RecordSavings(actor, m, RoundDiv(typed, 10), type)
    ELSE /\ lastOp' = Op("recordSavingsTransaction", actor, 0, "ValidationError")
         /\ UNCHANGED <<profiles, user_roles, members, savings, loans, loan_payments,
                        today, tx, dash>>

----------------------------------------------------------------------------
(* Members: registration, the Add Member dialog, update and delete *)

(* a request made without signing in: auth.uid() is NULL *)
Anon == "anon"

(* members.id, gen_random_uuid() *)
MemberIdNames == <<"m1", "m2", "m3", "m4", "m5", "m6">>

MemberIndex(m) == CHOOSE i \in 1..Len(MemberIdNames) : MemberIdNames[i] = m

NewMemberId(mem) ==
    MemberIdNames[CHOOSE i \in 1..Len(MemberIdNames) :
                      /\ MemberIdNames[i] \notin DOMAIN mem
                      /\ \A j \in 1..(i-1) : MemberIdNames[j] \in DOMAIN mem]

(* "Admins can manage members", FOR ALL, on profiles.role: never dropped *)
PolicyMembersAll(actor) ==
    /\ actor \in DOMAIN profiles
    /\ profiles[actor] \in {"admin", "treasurer", "secretary"}

(* members: SELECT as "Authenticated users can view members" had it *)
PolicyMembersSelect_authenticated(actor, row) ==
    actor = Owner \/ Authenticated(actor)

(* members: SELECT, "Users can view their own member record" *)
PolicyMembersSelect(actor, row) ==
    \/ actor = Owner
    \/ row.user_id = actor
    \/ IsStaff(actor)
    \/ PolicyMembersAll(actor)

(* members: INSERT, "Users can create their own member record" *)
PolicyMembersInsert(actor, row) ==
    \/ actor = Owner
    \/ row.user_id = actor
    \/ PolicyMembersAll(actor)

(* members: DELETE, "Admins and treasurers can delete members" *)
PolicyMembersDelete(actor) ==
    \/ actor = Owner
    \/ PolicyMembersAll(actor)
    \/ IsStaff(actor)

(* the rows of members a SELECT by actor returns *)
VisibleMembers(actor, mem) ==
    {m \in DOMAIN mem : PolicyMembersSelect(actor, mem[m])}

(* the BEFORE INSERT row trigger generate_member_number_trigger; count is
   what SELECT COUNT( * ) FROM members gives the statement *)
generate_member_number(NEWrow, count) ==
    IF IsNull(NEWrow.member_number) \/ NEWrow.member_number = Some(<<>>)
    THEN [NEWrow EXCEPT !.member_number = Some(MemberNumber(count + 1))]
    ELSE NEWrow

(* member_number TEXT NOT NULL UNIQUE *)
MemberNumberTaken(mem, number) ==
    \E m \in DOMAIN mem : mem[m].member_number = number

NewMember(user_id, member_number) ==
    [user_id |-> user_id, member_number |-> member_number,
     monthly_savings_target |-> 0, total_savings |-> 0]

(* the row as the table stores it *)
Stored(NEWrow) == [NEWrow EXCEPT !.member_number = Val(NEWrow.member_number)]

(* handle_new_user, fired by the insert of a user into auth.users: the
   function is SECURITY DEFINER, so no policy filters its statements, and the
   sign-up fails as a whole when one of them fails *)
handle_new_user(u) ==
    /\ u \notin DOMAIN profiles
    /\ Cardinality(DOMAIN members) < MaxMembers
    /\ LET NEWrow == generate_member_number(NewMember(u, Null),
                                            Cardinality(DOMAIN members))
           id == NewMemberId(members)
       IN IF MemberNumberTaken(members, Val(NEWrow.member_number))
          THEN /\ UNCHANGED <<profiles, user_roles, members>>
               /\ lastOp' = Op("registerMember", u, 0, "duplicate key")
          ELSE /\ profiles' = Insert(profiles, u, "member")
               /\ user_roles' = user_roles \cup {<<u, "member">>}
               /\ members' = Insert(members, id, Stored(NEWrow))
               /\ lastOp' = Op("registerMember", u, MemberIndex(id), "ok")
    /\ UNCHANGED <<savings, loans, loan_payments, today, tx, dash>>

(* A sign-up as the transaction Postgres runs (READ COMMITTED): the BEFORE
   INSERT trigger numbers the row from the members its snapshot shows, which
   are the committed ones; the insert into the unique index of member_number
   waits for a concurrent insert of the same number to end, and fails once
   that one has committed. *)
TxRegNumber(s, u) ==
    /\ tx[s].pc = "idle"
    /\ u \notin DOMAIN profiles
    /\ \A t \in Sessions : ~(tx[t].pc = "numbered" /\ tx[t].actor = u)
    /\ Cardinality(DOMAIN members) + Cardinality(InFlight) < MaxMembers
    /\ tx' = [tx EXCEPT ![s] =
                 [IdleTx EXCEPT !.pc = "numbered", !.actor = u,
                                !.row = generate_member_number(NewMember(u, Null),
                                            Cardinality(DOMAIN members))]]
    /\ UNCHANGED <<profiles, user_roles, members, savings, loans, loan_payments,
                   today, dash, lastOp>>

TxRegCommit(s) ==
    /\ tx[s].pc = "numbered"
    /\ LET u == tx[s].actor
           id == NewMemberId(members)
       IN IF MemberNumberTaken(members, Val(tx[s].row.member_number))
          THEN /\ UNCHANGED <<profiles, user_roles, members>>
               /\ lastOp' = Op("registerMember", u, 0, "duplicate key")
          ELSE /\ profiles' = Insert(profiles, u, "member")
               /\ user_roles' = user_roles \cup {<<u, "member">>}
               /\ members' = Insert(members, id, Stored(tx[s].row))
               /\ lastOp' = Op("registerMember", u, MemberIndex(id), "ok")
    /\ tx' = [tx EXCEPT ![s] = IdleTx]
    /\ UNCHANGED <<savings, loans, loan_payments, today, dash>>

(* MembersSection.fetchMembers *)
fetchMembers ==
    /\ dash' = [dash EXCEPT !.members = VisibleMembers(dash.user, members)]
    /\ UNCHANGED <<profiles, user_roles, members, savings, loans, loan_payments,
                   today, tx, lastOp>>

(* MembersSection.handleAddMember: the number is made from the length of the
   dashboard's copy, the row carries the id of the user who is signed in *)
handleAddMember ==
    /\ dash.user \in DOMAIN profiles
    /\ Cardinality(DOMAIN members) < MaxMembers
    /\ LET memberCount == Cardinality(dash.members)
           memberNumber == <<"M", "B">> \o padStart(ToText(memberCount + 1), 4, "0")
           row == NewMember(dash.user, Some(memberNumber))
           NEWrow == generate_member_number(row,
                         Cardinality(VisibleMembers(dash.user, members)))
           id == NewMemberId(members)
       IN IF ~PolicyMembersInsert(dash.user, row)
          THEN /\ UNCHANGED <<members, dash>>
               /\ lastOp' = Op("addMember", dash.user, 0, "Unauthorized")
          ELSE IF MemberNumberTaken(members, Val(NEWrow.member_number))
          THEN /\ UNCHANGED <<members, dash>>
               /\ lastOp' = Op("addMember", dash.user, 0, "duplicate key")
          ELSE /\ members' = Insert(members, id, Stored(NEWrow))
               /\ dash' = [dash EXCEPT !.members = VisibleMembers(dash.user, members')]
               /\ lastOp' = Op("addMember", dash.user, MemberIndex(id), "ok")
    /\ UNCHANGED <<profiles, user_roles, savings, loans, loan_payments, today, tx>>

(* UPDATE members SET monthly_savings_target = ... WHERE id = ..., the
   statement of handleUpdateMember *)
UpdateMember(actor, m, target) ==
    /\ m \in DOMAIN members
    /\ IF PolicyMembersUpdate(actor)
       THEN /\ members' = [members EXCEPT ![m].monthly_savings_target = target]
            /\ lastOp' = Op("updateMember", actor, MemberIndex(m), "ok")
       ELSE /\ UNCHANGED members
            /\ lastOp' = Op("updateMember", actor, MemberIndex(m), "no rows")
    /\ UNCHANGED <<profiles, user_roles, savings, loans, loan_payments, today, tx, dash>>

(* DELETE FROM members WHERE id = ...; savings and loans of the member go
   with it (ON DELETE CASCADE) *)
DeleteMember(actor, m) ==
    /\ m \in DOMAIN members
    /\ IF PolicyMembersDelete(actor)
       THEN /\ members' = Delete(members, m)
            /\ savings' = [i \in {j \in DOMAIN savings : savings[j].member_id # m}
                              |-> savings[i]]
            /\ loans' = [i \in {j \in DOMAIN loans : loans[j].member_id # m}
                              |-> loans[i]]
            /\ loan_payments' =
                   [i \in {j \in DOMAIN loan_payments :
                               loan_payments[j].loan_id \in DOMAIN loans'}
                       |-> loan_payments[i]]
            /\ lastOp' = Op("deleteMember", actor, MemberIndex(m), "ok")
       ELSE /\ UNCHANGED <<members, savings, loans, loan_payments>>
            /\ lastOp' = Op("deleteMember", actor, MemberIndex(m), "no rows")
    /\ UNCHANGED <<profiles, user_roles, today, tx, dash>>

----------------------------------------------------------------------------
(* Profiles and roles *)

(* profiles.role CHECK (role IN (...)) and the enum app_role *)
ProfileRoles == {"admin", "treasurer", "secretary", "member"}
AppRoles == {"admin", "treasurer", "member"}

(* profiles: INSERT, "Users can insert their own profile" *)
PolicyProfilesInsert(actor, u) == actor = Owner \/ actor = u

(* profiles: UPDATE, "Users can update their own profile": USING *)
PolicyProfilesUpdateUsing(actor, u) == actor = Owner \/ actor = u

(* the policy as first created: USING alone, which then also checks the new
   row *)
PolicyProfilesUpdateCheck_own(actor, u, role) == actor = Owner \/ actor = u

(* profiles: UPDATE, "Users can update their own profile": WITH CHECK, whose
   subquery reads the role the profile has before the update *)
PolicyProfilesUpdateCheck(actor, u, role) ==
    actor = Owner \/ (actor = u /\ role = profiles[actor])

(* profiles: no policy grants DELETE *)
PolicyProfilesDelete(actor) == actor = Owner

(* user_roles: FOR ALL, "Admins can manage all roles" *)
PolicyUserRolesAll(actor) ==
    actor = Owner \/ \E r \in user_roles : r[1] = actor /\ r[2] = "admin"

(* INSERT INTO profiles (user_id, role): user_id is UNIQUE *)
InsertProfile(actor, u, role) ==
    /\ IF ~PolicyProfilesInsert(actor, u)
       THEN /\ UNCHANGED profiles
            /\ lastOp' = Op("insertProfile", actor, 0, "Unauthorized")
       ELSE IF u \in DOMAIN profiles
       THEN /\ UNCHANGED profiles
            /\ lastOp' = Op("insertProfile", actor, 0, "duplicate key")
       ELSE /\ profiles' = Insert(profiles, u, role)
            /\ lastOp' = Op("insertProfile", actor, 0, "ok")
    /\ UNCHANGED <<user_roles, members, savings, loans, loan_payments, today, tx, dash>>

(* UPDATE profiles SET role = ... WHERE user_id = u *)
UpdateProfile(actor, u, role) ==
    /\ u \in DOMAIN profiles
    /\ IF ~PolicyProfilesUpdateUsing(actor, u)
       THEN /\ UNCHANGED profiles
            /\ lastOp' = Op("updateProfile", actor, 0, "no rows")
       ELSE IF ~PolicyProfilesUpdateCheck(actor, u, role)
       THEN /\ UNCHANGED profiles
            /\ lastOp' = Op("updateProfile", actor, 0, "Unauthorized")
       ELSE /\ profiles' = [profiles EXCEPT ![u] = role]
            /\ lastOp' = Op("updateProfile", actor, 0, "ok")
    /\ UNCHANGED <<user_roles, members, savings, loans, loan_payments, today, tx, dash>>

(* DELETE FROM profiles WHERE user_id = u *)
DeleteProfile(actor, u) ==
    /\ u \in DOMAIN profiles
    /\ IF PolicyProfilesDelete(actor)
       THEN /\ profiles' = Delete(profiles, u)
            /\ lastOp' = Op("deleteProfile", actor, 0, "ok")
       ELSE /\ UNCHANGED profiles
            /\ lastOp' = Op("deleteProfile", actor, 0, "no rows")
    /\ UNCHANGED <<user_roles, members, savings, loans, loan_payments, today, tx, dash>>

(* INSERT INTO user_roles (user_id, role); UNIQUE (user_id, role) *)
InsertUserRole(actor, u, role) ==
    /\ IF ~PolicyUserRolesAll(actor)
       THEN /\ UNCHANGED user_roles
            /\ lastOp' = Op("insertUserRole", actor, 0, "Unauthorized")
       ELSE IF <<u, role>> \in user_roles
       THEN /\ UNCHANGED user_roles
            /\ lastOp' = Op("insertUserRole", actor, 0, "duplicate key")
       ELSE /\ user_roles' = user_roles \cup {<<u, role>>}
            /\ lastOp' = Op("insertUserRole", actor, 0, "ok")
    /\ UNCHANGED <<profiles, members, savings, loans, loan_payments, today, tx, dash>>

(* UPDATE user_roles SET role = ... WHERE user_id = u AND role = ... *)
UpdateUserRole(actor, u, role, newRole) ==
    /\ <<u, role>> \in user_roles
    /\ IF ~PolicyUserRolesAll(actor)
       THEN /\ UNCHANGED user_roles
            /\ lastOp' = Op("updateUserRole", actor, 0, "no rows")
       ELSE IF newRole # role /\ <<u, newRole>> \in user_roles
       THEN /\ UNCHANGED user_roles
            /\ lastOp' = Op("updateUserRole", actor, 0, "duplicate key")
       ELSE /\ user_roles' = (user_roles \ {<<u, role>>}) \cup {<<u, newRole>>}
            /\ lastOp' = Op("updateUserRole", actor, 0, "ok")
    /\ UNCHANGED <<profiles, members, savings, loans, loan_payments, today, tx, dash>>

(* DELETE FROM user_roles WHERE user_id = u AND role = ... *)
DeleteUserRole(actor, u, role) ==
    /\ <<u, role>> \in user_roles
    /\ IF ~PolicyUserRolesAll(actor)
       THEN /\ UNCHANGED user_roles
            /\ lastOp' = Op("deleteUserRole", actor, 0, "no rows")
       ELSE /\ user_roles' = user_roles \ {<<u, role>>}
            /\ lastOp' = Op("deleteUserRole", actor, 0, "ok")
    /\ UNCHANGED <<profiles, members, savings, loans, loan_payments, today, tx, dash>>

----------------------------------------------------------------------------

Init ==
    /\ profiles = InitProfiles
    /\ user_roles = InitUserRoles
    /\ members = InitMembers
    /\ savings = <<>>
    /\ loans = <<>>
    /\ loan_payments = <<>>
    /\ today = 0
    /\ tx = [s \in Sessions |-> IdleTx]
    /\ dash = [user |-> "adm", loans |-> <<>>, selectedLoan |-> 0, dialog |-> "none",
            members |-> {}]
    /\ lastOp = Op("none", "none", 0, "none")

NextSavings ==
    \/ \E a \in Users, m \in MemberIds, x \in SavingsAmounts, t \in TransactionTypes :
          RecordSavings(a, m, x, t)
    \/ \E a \in Users, i \in 1..MaxSavings, m \in MemberIds, x \in SavingsAmounts,
          t \in TransactionTypes : UpdateSavings(a, i, m, x, t)
    \/ \E a \in Users, i \in 1..MaxSavings : DeleteSavings(a, i)

SpecSavings == Init /\ [][NextSavings]_vars

(* the savings ledger kept by the admin and the treasurer alone *)
Staff == {"adm", "trs"}

NextSavingsStaff ==
    \/ \E a \in Staff, m \in MemberIds, x \in SavingsAmounts, t \in TransactionTypes :
          RecordSavings(a, m, x, t)
    \/ \E a \in Staff, i \in 1..MaxSavings, m \in MemberIds, x \in SavingsAmounts,
          t \in TransactionTypes : UpdateSavings(a, i, m, x, t)
    \/ \E a \in Staff, i \in 1..MaxSavings : DeleteSavings(a, i)

SpecSavingsStaff == Init /\ [][NextSavingsStaff]_vars

NextLoans ==
    \/ \E a \in Users, m \in MemberIds, x \in LoanAmounts, r \in InterestRates,
          d \in Durations : ApplyForLoan(a, m, x, r, d)
    \/ \E a \in Users, l \in 1..MaxLoans, st \in LoanStatuses : UpdateLoanStatus(a, l, st)
    \/ \E a \in Users, l \in 1..MaxLoans, x \in PaymentAmounts : RecordPayment(a, l, x)
    \/ \E a \in Users \cup {Owner}, i \in 1..MaxPayments, l \in 1..MaxLoans,
          x \in PaymentAmounts : UpdatePayment(a, i, l, x)
    \/ \E a \in Users \cup {Owner}, i \in 1..MaxPayments : DeletePayment(a, i)
    \/ Tick

SpecLoans == Init /\ [][NextLoans]_vars

(* payments recorded concurrently against a loan that has been approved *)
InitConc ==
    /\ profiles = InitProfiles
    /\ user_roles = InitUserRoles
    /\ members = InitMembers
    /\ savings = <<>>
    /\ loans \in {<<calculate_loan_total(
                       [NewLoan(m, 1000000, 1000, 12) EXCEPT
                           !.loan_number = TemporaryNumber(1753000001)],
                       [NewLoan(m, 1000000, 1000, 12) EXCEPT
                           !.loan_number = TemporaryNumber(1753000001),
                           !.status = "approved"], 0)>> :
                  m \in MemberIds}
    /\ loan_payments = <<>>
    /\ today = 0
    /\ tx = [s \in Sessions |-> IdleTx]
    /\ dash = [user |-> "adm", loans |-> <<>>, selectedLoan |-> 0, dialog |-> "none",
            members |-> {}]
    /\ lastOp = Op("approveLoan", "adm", 1, "ok")

NextConc ==
    \/ \E s \in Sessions, a \in Users, l \in 1..MaxLoans, x \in PaymentAmounts :
          TxInsert(s, a, l, x)
    \/ \E s \in Sessions : TxSnapshot(s)
    \/ \E s \in Sessions : TxUpdate(s)
    \/ \E s \in Sessions : TxCommit(s)

SpecConc == InitConc /\ [][NextConc]_vars

(* loan applications and status updates alone *)
NextApprove ==
    \/ \E a \in Users, m \in MemberIds, x \in LoanAmounts, r \in InterestRates,
          d \in Durations : ApplyForLoan(a, m, x, r, d)
    \/ \E a \in Users, l \in 1..MaxLoans, st \in {"pending", "approved", "disbursed"} :
          UpdateLoanStatus(a, l, st)
    \/ Tick

SpecApprove == Init /\ [][NextApprove]_vars

(* loans of one size, their approval and the recording of payments *)
NextPay ==
    \/ \E a \in Users, m \in MemberIds, d \in Durations :
          ApplyForLoan(a, m, 1000000, 1000, d)
    \/ \E a \in Users, l \in 1..MaxLoans, st \in {"approved", "disbursed"} :
          UpdateLoanStatus(a, l, st)
    \/ \E a \in Users, l \in 1..MaxLoans, x \in PaymentAmounts : RecordPayment(a, l, x)

SpecPay == Init /\ [][NextPay]_vars

(* a loan repaid in instalments that add up to what is due *)
Instalments == {550000, 1100000}

NextSettle ==
    \/ \E a \in Users, m \in MemberIds, d \in Durations :
          ApplyForLoan(a, m, 1000000, 1000, d)
    \/ \E a \in Users, l \in 1..MaxLoans, st \in {"approved", "disbursed"} :
          UpdateLoanStatus(a, l, st)
    \/ \E a \in Users, l \in 1..MaxLoans, x \in Instalments : RecordPayment(a, l, x)

SpecSettle == Init /\ [][NextSettle]_vars

(* loans whose principal or rate is edited after the application *)
Principals == {1000000, 2000000}

NextTerms ==
    \/ \E a \in Users, m \in MemberIds, d \in Durations :
          ApplyForLoan(a, m, 1000000, 1000, d)
    \/ \E a \in Users, l \in 1..MaxLoans : UpdateLoanStatus(a, l, "approved")
    \/ \E a \in Users, l \in 1..MaxLoans, x \in Principals, r \in InterestRates :
          UpdateLoanTerms(a, l, x, r)

SpecTerms == Init /\ [][NextTerms]_vars

(* the dashboard of one user, next to requests made from elsewhere *)
InitDash ==
    /\ profiles = InitProfiles
    /\ user_roles = InitUserRoles
    /\ members = InitMembers
    /\ savings = <<>>
    /\ loans = <<>>
    /\ loan_payments = <<>>
    /\ today = 0
    /\ tx = [s \in Sessions |-> IdleTx]
    /\ dash \in {[user |-> u, loans |-> <<>>, selectedLoan |-> 0, dialog |-> "none",
            members |-> {}] :
                 u \in Users}
    /\ lastOp = Op("none", "none", 0, "none")

NextDash ==
    \/ \E a \in Users, m \in MemberIds, x \in LoanAmounts, r \in InterestRates,
          d \in Durations : ApplyForLoan(a, m, x, r, d)
    \/ \E a \in Users, l \in 1..MaxLoans, st \in LoanStatuses \ {"approved"} :
          UpdateLoanStatus(a, l, st)
    \/ fetchLoans
    \/ \E l \in 1..MaxLoans : handleApproveLoan(l)
    \/ confirmApproveLoan
    \/ \E l \in 1..MaxLoans : handleRecordPayment(l)
    \/ \E x \in PaymentAmounts : confirmPayment(10 * x)

SpecDash == InitDash /\ [][NextDash]_vars

(* sign-ups and the Add Member dialog; the users of Users signed up before
   handle_new_user created member records *)
NewUsers == {"u1", "u2", "u3"}

InitRegister ==
    /\ profiles = InitProfiles
    /\ user_roles = InitUserRoles
    /\ members = <<>>
    /\ savings = <<>>
    /\ loans = <<>>
    /\ loan_payments = <<>>
    /\ today = 0
    /\ tx = [s \in Sessions |-> IdleTx]
    /\ dash \in {[user |-> u, loans |-> <<>>, selectedLoan |-> 0, dialog |-> "none",
                  members |-> {}] : u \in Users}
    /\ lastOp = Op("none", "none", 0, "none")

NextRegister ==
    \/ \E u \in NewUsers : handle_new_user(u)
    \/ fetchMembers
    \/ handleAddMember

SpecRegister == InitRegister /\ [][NextRegister]_vars


(* sign-ups running concurrently *)
NextRegConc ==
    \/ \E s \in Sessions, u \in NewUsers : TxRegNumber(s, u)
    \/ \E s \in Sessions : TxRegCommit(s)

SpecRegConc == InitRegister /\ [][NextRegConc]_vars

(* members updated and deleted, next to the roles the table owner writes
   into profiles *)
SavingsTargets == {2500, 5000}

NextManage ==
    \/ \E u \in Users, r \in ProfileRoles : UpdateProfile(Owner, u, r)
    \/ \E a \in Users, m \in MemberIds, t \in SavingsTargets : UpdateMember(a, m, t)
    \/ \E a \in Users, m \in MemberIds : DeleteMember(a, m)

SpecManage == Init /\ [][NextManage]_vars

(* loans inserted through the API and their status updates *)
SuppliedTotals == {Null, Some(1)}

NextLoanApi ==
    \/ \E a \in Users, m \in MemberIds, x \in LoanAmounts, st \in LoanStatuses,
          t \in SuppliedTotals : InsertLoanDirect(a, m, x, st, t)
    \/ \E a \in Users, l \in 1..MaxLoans, st \in LoanStatuses : UpdateLoanStatus(a, l, st)

SpecLoanApi == Init /\ [][NextLoanApi]_vars

(* loan applications, from the form and through the API, while members are
   deleted *)
NextApply ==
    \/ \E a \in Users, m \in MemberIds, x \in LoanAmounts, r \in InterestRates,
          d \in Durations : ApplyForLoan(a, m, x, r, d)
    \/ \E a \in Users, m \in MemberIds, x \in LoanAmounts, st \in LoanStatuses,
          t \in SuppliedTotals : InsertLoanDirect(a, m, x, st, t)
    \/ \E a \in Users, m \in MemberIds : DeleteMember(a, m)

SpecApply == Init /\ [][NextApply]_vars

(* every user writing to profiles and to user_roles *)
NextRoles ==
    \/ \E a \in Users, u \in Users, r \in ProfileRoles : InsertProfile(a, u, r)
    \/ \E a \in Users, u \in Users, r \in ProfileRoles : UpdateProfile(a, u, r)
    \/ \E a \in Users, u \in Users : DeleteProfile(a, u)
    \/ \E a \in Users, u \in Users, r \in AppRoles : InsertUserRole(a, u, r)
    \/ \E a \in Users, u \in Users, r \in AppRoles, n \in AppRoles :
          UpdateUserRole(a, u, r, n)
    \/ \E a \in Users, u \in Users, r \in AppRoles : DeleteUserRole(a, u, r)

SpecRoles == Init /\ [][NextRoles]_vars

(* the dashboards of a user, signed in or not, reading what others write *)
InitRead ==
    /\ profiles = InitProfiles
    /\ user_roles = InitUserRoles
    /\ members = InitMembers
    /\ savings = <<>>
    /\ loans = <<>>
    /\ loan_payments = <<>>
    /\ today = 0
    /\ tx = [s \in Sessions |-> IdleTx]
    /\ dash \in {[user |-> u, loans |-> <<>>, selectedLoan |-> 0, dialog |-> "none",
                  members |-> {}] : u \in Users \cup {Anon}}
    /\ lastOp = Op("none", "none", 0, "none")

NextRead ==
    \/ handle_new_user("u1")
    \/ handleAddMember
    \/ RecordSavings("mem", "m1", 100, "deposit")
    \/ \E d \in Durations : ApplyForLoan("adm", "m2", 1000000, 1000, d)
    \/ \E l \in 1..MaxLoans : RecordPayment("adm", l, 300000)
    \/ fetchMembers
    \/ fetchLoans

SpecRead == InitRead /\ [][NextRead]_vars

(* the forms and the payment dialog, with what a user may type into them *)
TypedAmounts == {0 - 1000, 0, 4, 3000000}
TypedDurations == {0, 12}

NextForms ==
    \/ \E a \in Users, m \in MemberIds, x \in TypedAmounts, t \in TransactionTypes :
          SubmitSavingsForm(a, m, x, t)
    \/ \E a \in Users, m \in MemberIds, x \in TypedAmounts, d \in TypedDurations :
          SubmitLoanForm(a, m, x, 1000, d)
    \/ fetchLoans
    \/ \E l \in 1..MaxLoans : handleApproveLoan(l)
    \/ confirmApproveLoan
    \/ \E l \in 1..MaxLoans : handleRecordPayment(l)
    \/ \E x \in TypedAmounts : confirmPayment(x)

SpecForms == InitDash /\ [][NextForms]_vars

(* savings recorded through the form and through the REST endpoint *)
BalancesAfter == {100, 99900}

NextBalance ==
    \/ \E a \in Users, m \in MemberIds, x \in SavingsAmounts, t \in TransactionTypes :
          RecordSavings(a, m, x, t)
    \/ \E a \in Users, m \in MemberIds, x \in SavingsAmounts, t \in TransactionTypes,
          b \in BalancesAfter : InsertSavingsDirect(a, m, x, t, b)
    \/ \E id \in 1..MaxSavings, x \in SavingsAmounts :
          /\ id \in DOMAIN savings
          /\ UpdateSavings("trs", id, savings[id].member_id, x, savings[id].transaction_type)
    \/ Tick

SpecBalance == Init /\ [][NextBalance]_vars

----------------------------------------------------------------------------
(* Claims *)

(* C1: after any sequence of inserts, updates and deletes of savings
   transactions, every member's total_savings is the sum of the member's
   deposits minus the sum of the member's withdrawals (0 without any). *)
C1_TotalSavingsIsSignedSum ==
    \A m \in MemberIds :
        members[m].total_savings = SumSavings(savings, DOMAIN savings, m)

(* C2: for every loan whose total_amount_due is set,
   balance = total_amount_due - amount_paid in every reachable state. *)
C2_BalanceIdentity ==
    \A l \in DOMAIN loans :
        ~IsNull(loans[l].total_amount_due) =>
            loans[l].balance = Some(Val(loans[l].total_amount_due) - loans[l].amount_paid)

(* C3: after any sequence of inserts, updates and deletes of loan payments,
   each loan's amount_paid is the sum of the payments that reference it now
   (so deleting a payment lowers amount_paid by its amount). *)
C3_AmountPaidIsSumOfPayments ==
    \A l \in DOMAIN loans :
        loans[l].amount_paid = SumPayments(loan_payments, DOMAIN loan_payments, l)

(* C4: once a loan has been approved, no later step changes its
   total_amount_due or its due_date. *)
C4_ApprovalComputedOnce ==
    [][\A l \in DOMAIN loans :
          ~IsNull(loans[l].approval_date) =>
              /\ loans'[l].total_amount_due = loans[l].total_amount_due
              /\ loans'[l].due_date = loans[l].due_date]_vars

(* C5: an approveLoan on a loan that is not pending is rejected (the caller
   is not told it succeeded) and leaves every field of the loan as it was,
   also when it comes from a dashboard whose copy of the loan is stale. *)
C5_ApproveOnlyFromPending ==
    [][\A l \in DOMAIN loans :
          (lastOp'.op = "approveLoan" /\ lastOp'.target = l /\ loans[l].status # "pending")
              => /\ loans'[l] = loans[l]
                 /\ (lastOp' # lastOp => lastOp'.result # "ok")]_vars

(* C6 as stated: on pending -> approved, total_amount_due is exactly
   amount + amount * interest_rate / 100, and balance = total_amount_due. *)
C6_ExactTotal ==
    [][\A l \in DOMAIN loans :
          (loans[l].status = "pending" /\ loans'[l].status = "approved") =>
              /\ (loans'[l].amount * loans'[l].interest_rate) % 10000 = 0
              /\ loans'[l].total_amount_due =
                    Some(loans'[l].amount
                         + (loans'[l].amount * loans'[l].interest_rate) \div 10000)
              /\ loans'[l].balance = loans'[l].total_amount_due]_vars

(* the distance, in 1/10000 of a cent, of total from amount + amount*rate/100 *)
Excess(row) ==
    10000 * (Val(row.total_amount_due) - row.amount) - row.amount * row.interest_rate

Abs(n) == IF n < 0 THEN 0 - n ELSE n

(* C6 amended: on pending -> approved, total_amount_due is
   amount + amount * interest_rate / 100 rounded to the nearest cent, a half
   cent away from zero, and balance = total_amount_due. *)
C6_RoundedTotal ==
    [][\A l \in DOMAIN loans :
          (loans[l].status = "pending" /\ loans'[l].status = "approved") =>
              /\ ~IsNull(loans'[l].total_amount_due)
              /\ Abs(Excess(loans'[l])) <= 5000
              /\ (Abs(Excess(loans'[l])) = 5000 =>
                    (Excess(loans'[l]) > 0) = (loans'[l].amount * loans'[l].interest_rate > 0))
              /\ ((loans'[l].amount * loans'[l].interest_rate) % 10000 = 0 =>
                    Excess(loans'[l]) = 0)
              /\ loans'[l].balance = loans'[l].total_amount_due]_vars

C6_Witness ==
    \E l \in DOMAIN loans :
        /\ lastOp = Op("approveLoan", lastOp.actor, l, "ok")
        /\ loans[l].status = "approved"
        /\ (loans[l].amount * loans[l].interest_rate) % 10000 # 0
        /\ loans[l].balance = loans[l].total_amount_due
        /\ loans[l].approval_date = Some(today)

(* C7: when payment recordings against one loan have run concurrently and
   all have committed, the loan's amount_paid is the sum of all its payments
   and balance = total_amount_due - amount_paid. *)
C7_ConcurrentPaymentsAllCounted ==
    InFlight = {} =>
        \A l \in DOMAIN loans :
            /\ loans[l].amount_paid = SumPayments(loan_payments, DOMAIN loan_payments, l)
            /\ loans[l].balance = Minus(loans[l].total_amount_due, loans[l].amount_paid)

(* C8: after an actor holding only the member role has recorded a deposit or
   a withdrawal, the member's total_savings is the signed sum of the member's
   transactions, the new one included. *)
C8_MemberRecordingRecomputes ==
    (lastOp.op = "recordSavingsTransaction" /\ OnlyMember(lastOp.actor)) =>
        LET m == savings[lastOp.target].member_id
        IN members[m].total_savings = SumSavings(savings, DOMAIN savings, m)

(* C9: a savings transaction or loan payment is never persisted without its
   parent's derived fields reflecting it: every step that inserts a child row
   leaves the parent's total equal to the sum over its children. *)
C9_WriteAndRecomputeTogether ==
    [][/\ \A i \in DOMAIN savings' \ DOMAIN savings :
             members'[savings'[i].member_id].total_savings =
                 SumSavings(savings', DOMAIN savings', savings'[i].member_id)
       /\ \A i \in DOMAIN loan_payments' \ DOMAIN loan_payments :
             LET l == loan_payments'[i].loan_id
             IN /\ loans'[l].amount_paid =
                       SumPayments(loan_payments', DOMAIN loan_payments', l)
                /\ loans'[l].balance =
                       Minus(loans'[l].total_amount_due, loans'[l].amount_paid)]_vars

(* C10: a recordLoanPayment by an actor holding only the member role is
   denied, whoever owns the loan, and changes neither the payments nor any
   loan. *)
C10_MemberPaymentDenied ==
    [][(lastOp'.op = "recordLoanPayment" /\ OnlyMember(lastOp'.actor)) =>
          /\ lastOp'.result = "Unauthorized"
          /\ loan_payments' = loan_payments
          /\ loans' = loans]_vars

C10_Witness ==
    /\ lastOp.op = "recordLoanPayment"
    /\ OnlyMember(lastOp.actor)
    /\ lastOp.result = "Unauthorized"
    /\ lastOp.target \in DOMAIN loans
    /\ members[loans[lastOp.target].member_id].user_id = lastOp.actor
    /\ loans[lastOp.target].status = "approved"

(* C11: the Nth member registered receives member_number 'ALF' followed by N
   zero-padded to 4 digits, on the sign-up path and on the Add Member dialog
   alike: every step that registers a member, N - 1 being registered before
   it, gives the new record the number ALF<N>. *)
C11_NthMemberNumber ==
    [][\A m \in DOMAIN members' \ DOMAIN members :
          members'[m].member_number = MemberNumber(Cardinality(DOMAIN members) + 1)]_vars

(* C12: two concurrent member registrations never collide on member_number:
   in every interleaving each registration succeeds, and the members hold
   distinct numbers. *)
C12_ConcurrentRegistrationsSucceed ==
    /\ lastOp.op = "registerMember" => lastOp.result = "ok"
    /\ \A a, b \in DOMAIN members :
          a # b => members[a].member_number # members[b].member_number

(* C13: every loan created by applyForLoan carries a loan_number of the form
   'LN' + current year + per-year sequence number (zero-padded to 4 digits):
   the number the form submits does not survive the insert. *)
C13_LoanNumberGenerated ==
    [][\A l \in DOMAIN loans' \ DOMAIN loans :
          lastOp'.op = "applyForLoan" =>
              \E n \in 1..MaxLoans : loans'[l].loan_number = LoanNumber(today, n)]_vars

(* an admin or treasurer, by user_roles or by the role of the profile *)
HoldsStaffRole(u) ==
    \/ IsStaff(u)
    \/ u \in DOMAIN profiles /\ profiles[u] \in {"admin", "treasurer"}

(* C14: an update or delete of a member record succeeds only when the actor
   holds the admin or treasurer role; for every actor without one of these
   roles it is denied and the record is unchanged. *)
C14_OnlyStaffChangeMembers ==
    [][(lastOp'.op \in {"updateMember", "deleteMember"} /\ lastOp' # lastOp
            /\ ~HoldsStaffRole(lastOp'.actor))
          => /\ members' = members
             /\ lastOp'.result # "ok"]_vars

(* C15: every loan is created with status 'pending' and with
   total_amount_due, balance, approval_date and due_date unset, whatever the
   applicant's insert supplies, and a loan's status changes only in an
   update performed by an admin or treasurer. *)
C15_CreatedPendingAndUnset ==
    [][/\ \A l \in DOMAIN loans' \ DOMAIN loans :
             /\ loans'[l].status = "pending"
             /\ IsNull(loans'[l].total_amount_due)
             /\ IsNull(loans'[l].balance)
             /\ IsNull(loans'[l].approval_date)
             /\ IsNull(loans'[l].due_date)
       /\ \A l \in DOMAIN loans' \cap DOMAIN loans :
             loans'[l].status # loans[l].status => IsStaff(lastOp'.actor)]_vars

(* C16: a loan application is accepted only when its member_id identifies a
   member record owned by the acting user: every loan a step creates names
   a member of the user who applied, and an application that is denied
   creates no loan. *)
C16_ApplicationOnlyForOwnMember ==
    [][/\ \A l \in DOMAIN loans' \ DOMAIN loans :
             /\ lastOp'.op = "applyForLoan"
             /\ lastOp'.result = "ok"
             /\ loans'[l].member_id \in DOMAIN members
             /\ members[loans'[l].member_id].user_id = lastOp'.actor
       /\ (lastOp'.op = "applyForLoan" /\ lastOp'.result # "ok") => loans' = loans]_vars

(* an admin's application for a member that is not the admin's has been
   denied *)
C16_Witness ==
    /\ lastOp = Op("applyForLoan", "adm", 0, "Unauthorized")
    /\ \E m \in DOMAIN members : members[m].user_id # "adm"
    /\ loans = <<>>

RolesOf(roles, u) == {r \in roles : r[1] = u}

(* C17: no actor can change their own role: whatever insert or update of
   profiles and whatever write to user_roles an actor holding only the member
   role attempts, after it the actor's profile role is still 'member' and the
   actor's set of user_roles is unchanged. *)
C17_NoSelfRoleChange ==
    [][\A u \in DOMAIN profiles :
          (lastOp'.actor = u /\ OnlyMember(u)) =>
              /\ u \in DOMAIN profiles'
              /\ profiles'[u] = "member"
              /\ RolesOf(user_roles', u) = RolesOf(user_roles, u)]_vars

(* a member's update of their own profile's role has been rejected *)
C17_Witness ==
    /\ lastOp = Op("updateProfile", "mem", 0, "Unauthorized")
    /\ OnlyMember("mem")
    /\ RolesOf(user_roles, "mem") = {<<"mem", "member">>}

OwnMembers(a) == {m \in DOMAIN members : members[m].user_id = a}

(* C18 as stated: every authenticated actor, whatever their role, can read
   all members, loans, loan payments and savings records, and an
   unauthenticated actor can read none of them. *)
C18_AuthenticatedReadAll ==
    /\ \A a \in DOMAIN profiles :
          /\ VisibleMembers(a, members) = DOMAIN members
          /\ VisibleLoans(a, loans) = DOMAIN loans
          /\ VisiblePayments(a, loan_payments) = DOMAIN loan_payments
          /\ VisibleSavings(a, savings) = DOMAIN savings
    /\ VisibleMembers(Anon, members) = {}
    /\ VisibleLoans(Anon, loans) = {}
    /\ VisiblePayments(Anon, loan_payments) = {}
    /\ VisibleSavings(Anon, savings) = {}
    /\ (dash.user = Anon => dash.members = {} /\ dash.loans = <<>>)

(* C18 amended: every authenticated actor can read all loans, loan payments
   and savings records and their own member records; an admin or treasurer
   can read every member record; an actor holding only the member role can
   read no member record but their own; an unauthenticated actor can read
   none of the four. *)
C18_ReadsByRole ==
    /\ \A a \in DOMAIN profiles :
          /\ VisibleLoans(a, loans) = DOMAIN loans
          /\ VisiblePayments(a, loan_payments) = DOMAIN loan_payments
          /\ VisibleSavings(a, savings) = DOMAIN savings
          /\ OwnMembers(a) \subseteq VisibleMembers(a, members)
          /\ (IsStaff(a) => VisibleMembers(a, members) = DOMAIN members)
          /\ (OnlyMember(a) => VisibleMembers(a, members) = OwnMembers(a))
    /\ VisibleMembers(Anon, members) = {}
    /\ VisibleLoans(Anon, loans) = {}
    /\ VisiblePayments(Anon, loan_payments) = {}
    /\ VisibleSavings(Anon, savings) = {}
    /\ (dash.user = Anon => dash.members = {} /\ dash.loans = <<>>)
    /\ (OnlyMember(dash.user) => dash.members \subseteq OwnMembers(dash.user))

(* a member's dashboard has fetched the members and the loans: it shows the
   member's own record, not the admin's, and the loan of the admin *)
C18_Witness ==
    /\ dash.user = "mem"
    /\ dash.members = {"m1"}
    /\ "m2" \in DOMAIN members
    /\ \E l \in DOMAIN dash.loans : members[loans[l].member_id].user_id = "adm"
    /\ DOMAIN savings # {}

(* the status changes of the loan lifecycle *)
AllowedTransitions ==
    {<<"pending", "approved">>, <<"approved", "disbursed">>,
     <<"disbursed", "completed">>, <<"approved", "defaulted">>,
     <<"disbursed", "defaulted">>}

(* C19: a loan's status only ever changes along pending -> approved ->
   disbursed -> completed, or to 'defaulted' from 'approved' or 'disbursed';
   no step applies any other status change. *)
C19_StatusTransitions ==
    [][\A l \in DOMAIN loans \cap DOMAIN loans' :
          loans'[l].status # loans[l].status =>
              <<loans[l].status, loans'[l].status>> \in AllowedTransitions]_vars

(* C20: members and user identities are one-to-one: after any sequence of
   sign-ups and Add Member operations, every user identity owns at most one
   member record. *)
C20_OneMemberPerUser ==
    \A a, b \in DOMAIN members :
        members[a].user_id = members[b].user_id => a = b

(* C21: an operation that submits a non-positive amount or a loan duration
   below 1 month persists nothing, so every stored savings transaction, loan
   and payment has amount > 0 and every loan has duration_months >= 1. *)
C21_StoredAmountsPositive ==
    /\ \A i \in DOMAIN savings : savings[i].amount > 0
    /\ \A l \in DOMAIN loans : loans[l].amount > 0 /\ loans[l].duration_months >= 1
    /\ \A i \in DOMAIN loan_payments : loan_payments[i].amount > 0

(* the member's balance right after transaction i, the member's transactions
   applied in the order they were recorded; ids are handed out in that order
   where no row is deleted *)
RunningBalance(sv, i) ==
    SumSavings(sv, {j \in DOMAIN sv : j <= i}, sv[i].member_id)

(* C22: every savings transaction whose balance_after is set holds the
   member's running balance immediately after that transaction *)
C22_BalanceAfterIsRunningBalance ==
    \A i \in DOMAIN savings :
        ~IsNull(savings[i].balance_after) =>
            Val(savings[i].balance_after) = RunningBalance(savings, i)

(* the columns calculate_loan_total writes *)
Derived(row) == <<row.total_amount_due, row.balance, row.approval_date, row.due_date>>

(* C23: an update of a loan's status to a status other than 'approved', or of
   a loan that is 'approved' already, leaves total_amount_due, balance,
   approval_date and due_date as they were *)
C23_OtherUpdatesLeaveTotals ==
    [][\A l \in DOMAIN loans :
          (/\ lastOp'.op \in {"approveLoan", "updateLoanStatus"}
           /\ lastOp'.target = l
           /\ l \in DOMAIN loans'
           /\ (loans'[l].status # "approved" \/ loans[l].status = "approved"))
          => Derived(loans'[l]) = Derived(loans[l])]_vars

(* an approved loan was moved on to 'disbursed' and kept what approval set *)
C23_Witness ==
    \E l \in DOMAIN loans :
        /\ lastOp = Op("updateLoanStatus", "adm", l, "ok")
        /\ loans[l].status = "disbursed"
        /\ ~IsNull(loans[l].total_amount_due)
        /\ loans[l].balance = loans[l].total_amount_due
        /\ loans[l].approval_date = Some(0)
        /\ today = 1

(* C24: a savings transaction or loan payment recorded while the parent's
   stored total is stale sets the total to the sum over the parent's records
   as they are now *)
C24_StaleTotalCorrectedByNextWrite ==
    [][/\ \A i \in DOMAIN savings' \ DOMAIN savings :
             LET m == savings'[i].member_id
             IN members[m].total_savings # SumSavings(savings, DOMAIN savings, m) =>
                    members'[m].total_savings = SumSavings(savings', DOMAIN savings', m)
       /\ \A i \in DOMAIN loan_payments' \ DOMAIN loan_payments :
             LET l == loan_payments'[i].loan_id
             IN loans[l].amount_paid # SumPayments(loan_payments, DOMAIN loan_payments, l) =>
                    /\ loans'[l].amount_paid =
                           SumPayments(loan_payments', DOMAIN loan_payments', l)
                    /\ loans'[l].balance =
                           Minus(loans'[l].total_amount_due, loans'[l].amount_paid)]_vars

(* the columns of a loan a payment is not meant to touch *)
Frame(row) == [row EXCEPT !.amount_paid = 0, !.balance = Null]

(* C25: a step that records a loan payment changes nothing of any loan but
   amount_paid and balance of the loan paid: status, total_amount_due,
   approval_date and due_date stay, also when the balance reaches zero *)
C25_PaymentChangesPaidAndBalanceOnly ==
    [][\A i \in DOMAIN loan_payments' \ DOMAIN loan_payments :
          /\ DOMAIN loans' = DOMAIN loans
          /\ \A l \in DOMAIN loans :
                IF l = loan_payments'[i].loan_id
                THEN Frame(loans'[l]) = Frame(loans[l])
                ELSE loans'[l] = loans[l]]_vars

(* the payment that brought the balance to zero left the loan approved *)
C25_Witness ==
    \E l \in DOMAIN loans :
        /\ lastOp = Op("recordLoanPayment", lastOp.actor, l, "ok")
        /\ loans[l].balance = Some(0)
        /\ loans[l].amount_paid = 1100000
        /\ loans[l].total_amount_due = Some(1100000)
        /\ loans[l].status = "approved"
        /\ loans[l].approval_date = Some(0)
        /\ loans[l].due_date = Some(12)

(* C26: a payment is persisted only against a loan that is 'approved' or
   'disbursed' at that moment, also when the dashboard submitting it shows a
   stale copy of the loan *)
C26_PaymentOnlyOnOpenLoan ==
    [][\A i \in DOMAIN loan_payments' \ DOMAIN loan_payments :
          LET l == loan_payments'[i].loan_id
          IN /\ l \in DOMAIN loans'
             /\ loans'[l].status \in {"approved", "disbursed"}]_vars

(* C27: no payment makes a loan's amount_paid exceed its total_amount_due:
   where total_amount_due is set, balance >= 0 *)
C27_BalanceNeverNegative ==
    \A l \in DOMAIN loans :
        ~IsNull(loans[l].total_amount_due) =>
            /\ loans[l].amount_paid <= Val(loans[l].total_amount_due)
            /\ ~IsNull(loans[l].balance)
            /\ Val(loans[l].balance) >= 0

(* C28: a withdrawal never takes a member's savings below zero:
   total_savings >= 0 for every member *)
C28_SavingsNeverNegative ==
    \A m \in DOMAIN members : members[m].total_savings >= 0

(* C29: where total_amount_due is set, it is amount + amount * interest_rate
   / 100 for the amount and the rate the loan has now *)
C29_TotalTracksTerms ==
    \A l \in DOMAIN loans :
        ~IsNull(loans[l].total_amount_due) => Excess(loans[l]) = 0

(* Array.reduce over the savings rows: a deposit added, a withdrawal
   subtracted *)
RECURSIVE Replay(_, _)
Replay(sv, ids) ==
    IF ids = {} THEN 0
    ELSE LET i == CHOOSE x \in ids : TRUE
         IN (IF sv[i].transaction_type = "deposit" THEN sv[i].amount ELSE 0 - sv[i].amount)
            + Replay(sv, ids \ {i})

(* Array.reduce over the members rows: total_savings || 0 added *)
RECURSIVE SumStored(_, _)
SumStored(mem, ids) ==
    IF ids = {} THEN 0
    ELSE LET m == CHOOSE x \in ids : TRUE
         IN mem[m].total_savings + SumStored(mem, ids \ {m})

(* totalSavings of DashboardOverview.fetchStats, of SavingsSection's
   fetchTotalSavings and of ReportsSection.calculateSummary, as the signed-in
   actor gets them *)
fetchStats(actor) == Replay(savings, VisibleSavings(actor, savings))
fetchTotalSavings(actor) == Replay(savings, VisibleSavings(actor, savings))
calculateSummary(actor) == SumStored(members, VisibleMembers(actor, members))

(* C30: for an actor who can read all records, the savings total replayed
   from the transactions equals the total summed from the members' stored
   total_savings *)
C30_ReplayedTotalIsStoredTotal ==
    \A a \in Staff :
        /\ fetchStats(a) = calculateSummary(a)
        /\ fetchTotalSavings(a) = calculateSummary(a)

====
